---- MODULE Spec2Model ----
(***************************************************************************)
(* Model of the mint client's transaction construction                     *)
(* (consensus/mint-client/src/config.rs) and of the defragmentation memo   *)
(* builder (transaction/builder/src/memo_builder/                          *)
(* defragmentation_memo_builder.rs).                                       *)
(*                                                                         *)
(* Several specifications share the module:                                *)
(*   SpecMemo   - a DefragmentationMemoBuilder driven by arbitrary calls   *)
(*   SpecSig    - try_into_mint_config_tx / try_into_mint_tx invocations   *)
(*   SpecParse  - parse_mint_config invocations                            *)
(*   SpecPrefix - try_into_mint_config_tx_prefix / try_into_mint_tx_prefix *)
(*   SpecMintTx - try_into_mint_tx from its prefix parameters              *)
(*   SpecMerge  - merging of partially signed records                      *)
(***************************************************************************)
EXTENDS Integers, Sequences, FiniteSets, TLC

(***************************************************************************)
(* Bounds of the model                                                     *)
(***************************************************************************)
\* number of calls made on one builder
MaxCalls == 4
\* token ids are 0..MaxTokenId
MaxTokenId == 1
\* defragmentation ids are 0..MaxDefragId
MaxDefragId == 1
\* number of ':'-separated parts of a mint config string
MaxParts == 5
\* numbers that appear as a part of a mint config string are 0..MaxNum
MaxNum == 3
\* length of the signing_keys list of an invocation
MaxKeys == 2
\* length of the externally supplied signatures list of an invocation
MaxExt == 2
\* signatures are the values 0..MaxSig, ordered as their bytes are
MaxSig == 2
\* block heights (tombstones, fog key expiries) are 0..MaxHeight
MaxHeight == 2
\* number of (mint_limit, signer_set) pairs of a mint config prefix
MaxConfigs == 2

(***************************************************************************)
(* Program constants                                                       *)
(***************************************************************************)
\* Mob::MINIMUM_FEE
MINIMUM_FEE == 400000000
\* Mob::ID
MobID == 0
\* mc_transaction_core::mint::constants::NONCE_LENGTH
NONCE_LENGTH == 64

TokenIds == 0..MaxTokenId
DefragIds == 0..MaxDefragId
\* u64 samples used for fee values, outlays and output amounts
U64Samples == {0, 1, MINIMUM_FEE}

\* Amount::new(value, token_id)
Amount(value, token_id) == [value |-> value, token_id |-> token_id]
Amounts == {Amount(v, t) : v \in U64Samples, t \in TokenIds}

\* Option<u64>: None is <<>>, Some(v) is <<v>>
None == <<>>
Some(v) == <<v>>
\* Option::unwrap_or
unwrap_or(opt, default) == IF opt = None THEN default ELSE opt[1]

\* Result<MemoPayload, NewMemoError> / Result<(), NewMemoError>
Ok(payload) == [status |-> "Ok", payload |-> payload]
Err(e) == [status |-> e, payload |-> <<>>]

\* DefragmentationMemo::new(fee, total_outlay, defrag_id).into()
DefragmentationMemo(fee, total_outlay, defrag_id) ==
    [fee |-> fee, total_outlay |-> total_outlay, defrag_id |-> defrag_id]

VARIABLES
    \* ---- DefragmentationMemoBuilder fields
    fee, total_outlay, defrag_id, wrote_main_memo, wrote_decoy_memo,
    \* ---- the call just made on the builder: name, argument, result
    call,
    \* ---- number of calls made so far
    calls,
    \* ---- what the caller of the builder has seen so far
    hist,
    \* ---- parse_mint_config: the ':'-separated parts of src, and the result
    parts, parsed,
    \* ---- two invocations of try_into_mint_config_tx / try_into_mint_tx:
    \*      tx[i] holds the parameters and the result of invocation i
    tx,
    \* ---- a run of try_into_mint_config_tx_prefix / try_into_mint_tx_prefix
    \*      (px[1]) and a second run on the same parameters (px[2])
    px,
    \* ---- an invocation of try_into_mint_tx with its prefix parameters
    mtx,
    \* ---- partially signed records to merge, and the merged records
    mg

memoVars == <<fee, total_outlay, defrag_id, wrote_main_memo, wrote_decoy_memo,
              call, calls, hist>>
parseVars == <<parts, parsed>>
sigVars == <<tx>>
prefixVars == <<px, mtx>>
mergeVars == <<mg>>

vars == <<memoVars, parseVars, sigVars, prefixVars, mergeVars>>

\* a call that has not been made yet
Pending == [status |-> "Pending"]

\* the builder as a record, as the methods see it through self
Self == [fee |-> fee, total_outlay |-> total_outlay, defrag_id |-> defrag_id,
         wrote_main_memo |-> wrote_main_memo,
         wrote_decoy_memo |-> wrote_decoy_memo]

NoAmount == Amount(0, MobID)
NoCall == [op |-> "new", amount |-> NoAmount, value |-> 0, result |-> Ok(<<>>)]

\* impl Default for DefragmentationMemoBuilder
Default ==
    /\ fee = Amount(MINIMUM_FEE, MobID)
    /\ total_outlay = MINIMUM_FEE
    /\ defrag_id = None
    /\ wrote_main_memo = FALSE
    /\ wrote_decoy_memo = FALSE

\* What the caller has observed: the number of main and change memos it was
\* handed, whether a change memo was handed out before any main memo, and the
\* arguments it last passed to the setters that accepted them.
HistInit == [main_ok |-> 0, change_ok |-> 0, change_first |-> FALSE,
             fee |-> Amount(MINIMUM_FEE, MobID),
             total_outlay |-> MINIMUM_FEE,
             defrag_id |-> None]

MemoIdle ==
    /\ Default
    /\ call = NoCall
    /\ calls = 0
    /\ hist = HistInit

ParseIdle ==
    /\ parts = <<>>
    /\ parsed = Pending

SigIdle == tx = <<Pending, Pending>>

PrefixIdle ==
    /\ px = <<Pending, Pending>>
    /\ mtx = Pending

MergeIdle == mg = Pending

MemoInit == MemoIdle /\ ParseIdle /\ SigIdle /\ PrefixIdle /\ MergeIdle

\* the result of set_fee on builder self
set_fee_result(self, new_fee) ==
    IF self.wrote_main_memo THEN Err("FeeAfterChange") ELSE Ok(<<>>)

\* make_memo_for_output encoding the output's amount instead of the fee
make_memo_for_output_result_amount(self, amount) ==
    IF self.wrote_main_memo THEN Err("MultipleDefragOutputs")
    ELSE IF self.wrote_decoy_memo THEN Err("OutputsAfterChange")
    ELSE Ok(<<DefragmentationMemo(amount, self.total_outlay,
                                  unwrap_or(self.defrag_id, 0))>>)

\* the result of make_memo_for_output on builder self
make_memo_for_output_result(self, amount) ==
    IF self.wrote_main_memo THEN Err("MultipleDefragOutputs")
    ELSE IF self.wrote_decoy_memo THEN Err("OutputsAfterChange")
    ELSE Ok(<<DefragmentationMemo(self.fee, self.total_outlay,
                                  unwrap_or(self.defrag_id, 0))>>)

\* make_memo_for_change_output comparing against Mob::ID, not the stored fee
make_memo_for_change_output_result_mob(self, amount) ==
    IF self.wrote_decoy_memo THEN Err("MultipleChangeOutputs")
    ELSE IF amount.token_id = MobID THEN Err("MixedTokenIds")
    ELSE Ok(<<DefragmentationMemo(0, 0, unwrap_or(self.defrag_id, 0))>>)

\* make_memo_for_change_output dropping the defragmentation id
make_memo_for_change_output_result_noid(self, amount) ==
    IF self.wrote_decoy_memo THEN Err("MultipleChangeOutputs")
    ELSE IF amount.token_id = self.fee.token_id THEN Err("MixedTokenIds")
    ELSE Ok(<<DefragmentationMemo(0, 0, 0)>>)

\* the result of make_memo_for_change_output on builder self
make_memo_for_change_output_result(self, amount) ==
    IF self.wrote_decoy_memo THEN Err("MultipleChangeOutputs")
    ELSE IF amount.token_id = self.fee.token_id THEN Err("MixedTokenIds")
    ELSE Ok(<<DefragmentationMemo(0, 0, unwrap_or(self.defrag_id, 0))>>)

Called(op, amount, value, result) ==
    /\ calls < MaxCalls
    /\ calls' = calls + 1
    /\ call' = [op |-> op, amount |-> amount, value |-> value, result |-> result]

set_total_outlay(value) ==
    /\ Called("set_total_outlay", NoAmount, value, Ok(<<>>))
    /\ total_outlay' = value
    /\ hist' = [hist EXCEPT !.total_outlay = value]
    /\ UNCHANGED <<parseVars, sigVars, prefixVars, mergeVars,
                   fee, defrag_id, wrote_main_memo, wrote_decoy_memo>>

set_defrag_id(value) ==
    /\ Called("set_defrag_id", NoAmount, value, Ok(<<>>))
    /\ defrag_id' = Some(value)
    /\ hist' = [hist EXCEPT !.defrag_id = Some(value)]
    /\ UNCHANGED <<parseVars, sigVars, prefixVars, mergeVars,
                   fee, total_outlay, wrote_main_memo, wrote_decoy_memo>>

clear_defrag_id ==
    /\ Called("clear_defrag_id", NoAmount, 0, Ok(<<>>))
    /\ defrag_id' = None
    /\ hist' = [hist EXCEPT !.defrag_id = None]
    /\ UNCHANGED <<parseVars, sigVars, prefixVars, mergeVars,
                   fee, total_outlay, wrote_main_memo, wrote_decoy_memo>>

set_fee(new_fee) ==
    LET r == set_fee_result(Self, new_fee) IN
    /\ Called("set_fee", new_fee, 0, r)
    /\ fee' = IF r.status = "Ok" THEN new_fee ELSE fee
    /\ hist' = IF r.status = "Ok" THEN [hist EXCEPT !.fee = new_fee] ELSE hist
    /\ UNCHANGED <<parseVars, sigVars, prefixVars, mergeVars,
                   total_outlay, defrag_id, wrote_main_memo, wrote_decoy_memo>>

make_memo_for_output(amount) ==
    LET r == make_memo_for_output_result(Self, amount) IN
    /\ Called("make_memo_for_output", amount, 0, r)
    /\ hist' = IF r.status = "Ok"
               THEN [hist EXCEPT !.main_ok = @ + 1] ELSE hist
    /\ UNCHANGED <<parseVars, sigVars, prefixVars, mergeVars,
                   fee, total_outlay, defrag_id, wrote_main_memo,
                   wrote_decoy_memo>>

make_memo_for_change_output(amount) ==
    LET r == make_memo_for_change_output_result(Self, amount) IN
    /\ Called("make_memo_for_change_output", amount, 0, r)
    /\ hist' = IF r.status = "Ok"
               THEN [hist EXCEPT !.change_ok = @ + 1,
                                 !.change_first = @ \/ hist.main_ok = 0]
               ELSE hist
    /\ UNCHANGED <<parseVars, sigVars, prefixVars, mergeVars,
                   fee, total_outlay, defrag_id, wrote_main_memo,
                   wrote_decoy_memo>>

MemoNext ==
    \/ \E v \in U64Samples : set_total_outlay(v)
    \/ \E v \in DefragIds : set_defrag_id(v)
    \/ clear_defrag_id
    \/ \E f \in Amounts : set_fee(f)
    \/ \E a \in Amounts : make_memo_for_output(a)
    \/ \E a \in Amounts : make_memo_for_change_output(a)

SpecMemo == MemoInit /\ [][MemoNext]_vars

(***************************************************************************)
(* parse_mint_config                                                       *)
(***************************************************************************)
\* sequences over S of length at most n
SeqsUpTo(S, n) == UNION {[1..k -> S] : k \in 0..n}

\* A ':'-separated part of the config string is a decimal number, the name of
\* a PEM file holding a DER public key, or anything else (neither a number nor
\* the name of a readable, well-formed key file).
NumPart(n) == [kind |-> "num", v |-> n]
KeyPart(k) == [kind |-> "key", v |-> k]
JunkPart == [kind |-> "junk", v |-> 0]
PublicKeys == {1, 2}
Parts == {NumPart(n) : n \in 0..MaxNum} \cup {KeyPart(k) : k \in PublicKeys}
            \cup {JunkPart}
\* src.split(':') yields at least one part
Srcs == SeqsUpTo(Parts, MaxParts) \ {<<>>}

\* SignerSet::new(public_keys, threshold)
SignerSet(signers, threshold) == [signers |-> signers, threshold |-> threshold]

\* parse_mint_config(src), on the parts of src
parse_mint_config_result(ps) ==
    IF Len(ps) < 3 THEN [status |-> "ErrFormat"]
    ELSE IF ps[1].kind # "num" THEN [status |-> "ErrMintLimit"]
    ELSE IF ps[2].kind # "num" THEN [status |-> "ErrThreshold"]
    ELSE IF \E i \in 3..Len(ps) : ps[i].kind # "key"
         THEN [status |-> "ErrKeyFile"]
    ELSE IF ps[2].v > Len(ps) - 2 THEN [status |-> "ErrThresholdTooBig"]
    ELSE [status |-> "Ok", mint_limit |-> ps[1].v,
          signer_set |-> SignerSet([i \in 1..(Len(ps) - 2) |-> ps[i + 2].v],
                                   ps[2].v)]

ParseInit ==
    /\ MemoIdle /\ SigIdle /\ PrefixIdle /\ MergeIdle
    /\ parts \in Srcs
    /\ parsed = Pending

parse_mint_config ==
    /\ parsed = Pending
    /\ parsed' = parse_mint_config_result(parts)
    /\ UNCHANGED <<memoVars, sigVars, prefixVars, mergeVars, parts>>

ParseNext == parse_mint_config

SpecParse == ParseInit /\ [][ParseNext]_vars

(***************************************************************************)
(* try_into_mint_config_tx / try_into_mint_tx                              *)
(***************************************************************************)
\* prefix hashes
Messages == {0, 1}
\* private keys that sign, and private keys whose try_sign fails
GoodKeys == {1, 2}
BrokenKeys == {0}
\* Ed25519Signature values
Signatures == 0..MaxSig

\* the signature of message by key: deterministic, one-to-one in the key
Sign(key, message) == (key + message) % (MaxSig + 1)

\* Ed25519Pair::from(key).try_sign(message)
try_sign(key, message) ==
    IF key \in BrokenKeys THEN [status |-> "Err"]
    ELSE [status |-> "Ok", sig |-> Sign(key, message)]

\* signing where a key that fails to sign is skipped
RECURSIVE sign_all_skip(_, _)
sign_all_skip(keys, message) ==
    IF keys = <<>> THEN [status |-> "Ok", sigs |-> <<>>]
    ELSE LET first == try_sign(Head(keys), message)
             rest == sign_all_skip(Tail(keys), message) IN
         IF first.status # "Ok" THEN rest
         ELSE [status |-> "Ok", sigs |-> <<first.sig>> \o rest.sigs]

\* signing_keys.into_iter().map(try_sign).collect::<Result<Vec<_>, _>>()
RECURSIVE sign_all(_, _)
sign_all(keys, message) ==
    IF keys = <<>> THEN [status |-> "Ok", sigs |-> <<>>]
    ELSE LET first == try_sign(Head(keys), message) IN
         IF first.status # "Ok" THEN [status |-> "Err"]
         ELSE LET rest == sign_all(Tail(keys), message) IN
              IF rest.status # "Ok" THEN [status |-> "Err"]
              ELSE [status |-> "Ok", sigs |-> <<first.sig>> \o rest.sigs]

\* insertion of x into the ascending sequence s, after the entries equal to it
RECURSIVE insert(_, _)
insert(x, s) ==
    IF s = <<>> THEN <<x>>
    ELSE IF x < Head(s) THEN <<x>> \o s
    ELSE <<Head(s)>> \o insert(x, Tail(s))

\* Vec::sort
RECURSIVE sort(_)
sort(s) ==
    IF s = <<>> THEN <<>>
    ELSE insert(s[Len(s)], sort(SubSeq(s, 1, Len(s) - 1)))

\* Vec::dedup: removes consecutive repeated elements
RECURSIVE dedup(_)
dedup(s) ==
    IF Len(s) < 2 THEN s
    ELSE IF s[1] = s[2] THEN dedup(Tail(s))
    ELSE <<s[1]>> \o dedup(Tail(s))

\* sorting skipped
canonical_unsorted(sigs) == dedup(sigs)

\* duplicates removed before sorting
canonical_dedup_first(sigs) == sort(dedup(sigs))

\* duplicates kept
canonical_sort_only(sigs) == sort(sigs)

\* signatures.sort(); signatures.dedup();
canonical(sigs) == dedup(sort(sigs))

\* the signing part shared by try_into_mint_config_tx and try_into_mint_tx:
\* p holds the prefix result, signing_keys and signatures
sign_prefix(p) ==
    IF p.prefix.status # "Ok" THEN p @@ [status |-> "ErrPrefix"]
    ELSE LET local == sign_all(p.signing_keys, p.prefix.hash) IN
         IF local.status # "Ok" THEN p @@ [status |-> "ErrSign"]
         ELSE p @@ [status |-> "Ok",
                    signature |-> canonical(local.sigs \o p.signatures)]

\* results of try_into_mint_config_tx_prefix (it has no error return) and of
\* try_into_mint_tx_prefix
PrefixOk(message) == [status |-> "Ok", hash |-> message]
PrefixErr == [status |-> "Err"]
ConfigPrefixResults == {PrefixOk(m) : m \in Messages}
MintPrefixResults == {PrefixOk(m) : m \in Messages} \cup {PrefixErr}

Params(op, prefix, keys, sigs) ==
    [op |-> op, prefix |-> prefix, signing_keys |-> keys, signatures |-> sigs]

\* invocation i may run once, after the invocations before it
MayRun(i) == tx[i] = Pending /\ \A j \in 1..(i - 1) : tx[j] # Pending

\* the parameter lists an invocation may be given
KeyLists == SeqsUpTo(GoodKeys \cup BrokenKeys, MaxKeys)
SigLists == SeqsUpTo(Signatures, MaxExt)

try_into_mint_config_tx(i) ==
    /\ MayRun(i)
    /\ \E prefix \in ConfigPrefixResults, keys \in KeyLists, sigs \in SigLists :
         tx' = [tx EXCEPT ![i] =
                  sign_prefix(Params("mint_config_tx", prefix, keys, sigs))]
    /\ UNCHANGED <<memoVars, parseVars, prefixVars, mergeVars>>

try_into_mint_tx(i) ==
    /\ MayRun(i)
    /\ \E prefix \in MintPrefixResults, keys \in KeyLists, sigs \in SigLists :
         tx' = [tx EXCEPT ![i] =
                  sign_prefix(Params("mint_tx", prefix, keys, sigs))]
    /\ UNCHANGED <<memoVars, parseVars, prefixVars, mergeVars>>

SigInit == MemoIdle /\ ParseIdle /\ SigIdle /\ PrefixIdle /\ MergeIdle

SigNext ==
    \E i \in 1..2 :
        \/ try_into_mint_config_tx(i)
        \/ try_into_mint_tx(i)

SpecSig == SigInit /\ [][SigNext]_vars

(***************************************************************************)
(* try_into_mint_config_tx_prefix / try_into_mint_tx_prefix                *)
(***************************************************************************)
Heights == 0..MaxHeight
OptHeights == {None} \cup {Some(h) : h \in Heights}

\* u64::min
Min(a, b) == IF a < b THEN a ELSE b

\* the NONCE_LENGTH bytes b, b, ..., b
NonceOf(b) == [i \in 1..NONCE_LENGTH |-> b]
\* nonces given on the command line
OptNonces == {None, Some(NonceOf(0)), Some(NonceOf(255))}
\* byte streams thread_rng may yield
RngStreams == {NonceOf(1), NonceOf(255)}

\* a nonce drawn from the random source whether or not one was supplied
get_or_generate_nonce_random(nonce, rng) ==
    [nonce |-> [i \in 1..NONCE_LENGTH |-> rng[i]], rng_used |-> TRUE]

\* get_or_generate_nonce(nonce), where rng is what thread_rng yields if asked
get_or_generate_nonce(nonce, rng) ==
    IF nonce # None
    THEN [nonce |-> [i \in 1..Len(nonce[1]) |-> nonce[1][i]],
          rng_used |-> FALSE]
    ELSE [nonce |-> [i \in 1..NONCE_LENGTH |-> rng[i]], rng_used |-> TRUE]

\* MintConfig { token_id, mint_limit, signer_set }
MintConfig(token_id, mint_limit, signer_set) ==
    [token_id |-> token_id, mint_limit |-> mint_limit,
     signer_set |-> signer_set]

\* the (mint_limit, signer_set) pairs a prefix may be given
ConfigPairs == {<<1, SignerSet(<<1>>, 1)>>, <<2, SignerSet(<<1, 2>>, 1)>>}
TotalLimits == {0, 5}

\* arguments of a try_into_mint_config_tx_prefix call: the fields of
\* MintConfigTxPrefixParams, the value of fallback_tombstone_block() and what
\* thread_rng yields
ConfigPrefixCalls ==
    [token_id : TokenIds, tombstone : OptHeights, nonce : OptNonces,
     configs : SeqsUpTo(ConfigPairs, MaxConfigs),
     total_mint_limit : TotalLimits,
     fallback : Heights, rng : RngStreams]

\* the mint limit of every entry taken from the total mint limit
mint_config_entry_total(p, i) ==
    MintConfig(p.token_id, p.total_mint_limit, p.configs[i][2])

\* the MintConfig built from the i-th (mint_limit, signer_set) pair
mint_config_entry(p, i) ==
    MintConfig(p.token_id, p.configs[i][1], p.configs[i][2])

\* try_into_mint_config_tx_prefix on arguments p
try_into_mint_config_tx_prefix_result(p) ==
    LET tombstone_block == unwrap_or(p.tombstone, p.fallback)
        n == get_or_generate_nonce(p.nonce, p.rng)
    IN [status |-> "Ok", rng_used |-> n.rng_used,
        prefix |-> [token_id |-> p.token_id,
                    configs |-> [i \in 1..Len(p.configs) |->
                                   mint_config_entry(p, i)],
                    nonce |-> n.nonce,
                    tombstone_block |-> tombstone_block,
                    total_mint_limit |-> p.total_mint_limit]]

\* PublicAddress: with or without a fog report url
Recipient(url) ==
    [view_public_key |-> 1, spend_public_key |-> 2, fog_report_url |-> url]
Recipients == {Recipient(None), Recipient(Some("fog://a"))}

\* a FogContext, given by what its get_e_fog_hint returns for the recipient
FogErr == [status |-> "Err", err |-> "fog report invalid"]
FogOk(hint, expiry) ==
    [status |-> "Ok", e_fog_hint |-> hint, pubkey_expiry |-> expiry]
FogContexts == {FogErr} \cup {FogOk(9, e) : e \in Heights}
OptFogContexts == {None} \cup {Some(c) : c \in FogContexts}

\* arguments of a try_into_mint_tx_prefix call: the fields of
\* MintTxPrefixParams, fog_bits, the value of fallback_tombstone_block() and
\* what thread_rng yields
MintPrefixCalls ==
    [recipient : Recipients, token_id : {1}, amount : {5},
     tombstone : OptHeights, nonce : OptNonces,
     fog_bits : OptFogContexts, fallback : Heights, rng : RngStreams]

\* the fog branch taken whenever a fog context was supplied
uses_fog_if_context(p) == p.fog_bits # None

\* the fog branch skipped when no fog context was supplied
uses_fog_if_both(p) == p.recipient.fog_report_url # None /\ p.fog_bits # None

\* self.recipient.fog_report_url() is Some: the closure of map() runs
uses_fog(p) == p.recipient.fog_report_url # None

\* the tombstone raised to the expiry
tighten_max(tombstone_block, pubkey_expiry) ==
    IF tombstone_block < pubkey_expiry THEN pubkey_expiry ELSE tombstone_block

\* tombstone_block.min(pubkey_expiry)
tighten(tombstone_block, pubkey_expiry) == Min(tombstone_block, pubkey_expiry)

\* try_into_mint_tx_prefix on arguments p
try_into_mint_tx_prefix_result(p) ==
    LET base == unwrap_or(p.tombstone, p.fallback)
        n == get_or_generate_nonce(p.nonce, p.rng)
        MintTxPrefix(tombstone_block, e_fog_hint) ==
            [token_id |-> p.token_id, amount |-> p.amount,
             view_public_key |-> p.recipient.view_public_key,
             spend_public_key |-> p.recipient.spend_public_key,
             nonce |-> n.nonce, tombstone_block |-> tombstone_block,
             e_fog_hint |-> e_fog_hint]
    IN IF uses_fog(p)
       THEN IF p.fog_bits = None
            THEN [status |-> "ErrNoFogContext",
                  url |-> p.recipient.fog_report_url[1],
                  hint_called |-> FALSE, rng_used |-> FALSE]
            ELSE LET hint == p.fog_bits[1] IN
                 IF hint.status # "Ok"
                 THEN [status |-> "ErrFogHint", err |-> hint.err,
                       hint_called |-> TRUE, rng_used |-> FALSE]
                 ELSE [status |-> "Ok", hint_called |-> TRUE,
                       rng_used |-> n.rng_used,
                       prefix |-> MintTxPrefix(
                                    tighten(base, hint.pubkey_expiry),
                                    Some(hint.e_fog_hint))]
       ELSE [status |-> "Ok", hint_called |-> FALSE, rng_used |-> n.rng_used,
             prefix |-> MintTxPrefix(base, None)]

\* Run 1 takes any arguments.  Run 2 repeats run 1: the same parameters,
\* fallback value and fog context, and whatever thread_rng yields this time.
CallsOfRun(i, op, calls1) ==
    IF i = 1 THEN calls1
    ELSE IF px[1].op # op THEN {}
    ELSE {[px[1].args EXCEPT !.rng = r] : r \in RngStreams}

PrefixMayRun(i) == px[i] = Pending /\ \A j \in 1..(i - 1) : px[j] # Pending

try_into_mint_config_tx_prefix(i) ==
    /\ PrefixMayRun(i)
    /\ \E p \in CallsOfRun(i, "mint_config_tx_prefix", ConfigPrefixCalls) :
         px' = [px EXCEPT ![i] =
                  [op |-> "mint_config_tx_prefix", args |-> p,
                   result |-> try_into_mint_config_tx_prefix_result(p)]]
    /\ UNCHANGED <<memoVars, parseVars, sigVars, mergeVars, mtx>>

try_into_mint_tx_prefix(i) ==
    /\ PrefixMayRun(i)
    /\ \E p \in CallsOfRun(i, "mint_tx_prefix", MintPrefixCalls) :
         px' = [px EXCEPT ![i] =
                  [op |-> "mint_tx_prefix", args |-> p,
                   result |-> try_into_mint_tx_prefix_result(p)]]
    /\ UNCHANGED <<memoVars, parseVars, sigVars, mergeVars, mtx>>

PrefixInit == MemoIdle /\ ParseIdle /\ SigIdle /\ PrefixIdle /\ MergeIdle

PrefixNext ==
    \E i \in 1..2 :
        \/ try_into_mint_config_tx_prefix(i)
        \/ try_into_mint_tx_prefix(i)

SpecPrefix == PrefixInit /\ [][PrefixNext]_vars

(***************************************************************************)
(* try_into_mint_tx from its prefix parameters                             *)
(***************************************************************************)
\* prefix.hash(): a digest of the fields of the prefix
prefix_hash(prefix) ==
    (prefix.token_id + prefix.amount + prefix.nonce[1]
       + prefix.tombstone_block + Len(prefix.e_fog_hint)) % 2

\* what try_into_mint_tx sees of the result r of try_into_mint_tx_prefix:
\* `?` returns the error, otherwise the prefix is hashed
prefix_outcome(r) ==
    IF r.status = "Ok" THEN PrefixOk(prefix_hash(r.prefix)) ELSE PrefixErr

\* MintTxParams::try_into_mint_tx: builds the prefix, then signs it
MintTxParams_try_into_mint_tx ==
    /\ mtx = Pending
    /\ \E p \in MintPrefixCalls, keys \in KeyLists, sigs \in SigLists :
         LET r == try_into_mint_tx_prefix_result(p) IN
         mtx' = [status |-> "Done", args |-> p, prefix_result |-> r,
                 tx |-> sign_prefix(Params("mint_tx", prefix_outcome(r),
                                           keys, sigs))]
    /\ UNCHANGED <<memoVars, parseVars, sigVars, mergeVars, px>>

MintTxInit == MemoIdle /\ ParseIdle /\ SigIdle /\ PrefixIdle /\ MergeIdle

MintTxNext == MintTxParams_try_into_mint_tx

SpecMintTx == MintTxInit /\ [][MintTxNext]_vars

(***************************************************************************)
(* Merging of partially signed records (SubmitMintConfigTx, SubmitMintTx)  *)
(***************************************************************************)
\* a MintConfigTx / MintTx read from a tx file: its prefix, given by its
\* hash, and its signature collection
SignedRecord(hash, sigs) == [prefix |-> hash, signature |-> sigs]

\* two records of the same prefix merged: the union of their signature
\* collections under the sort and dedup rule
merge(a, b) ==
    SignedRecord(a.prefix, canonical(a.signature \o b.signature))

\* the merges of three records of one prefix, in the orders compared
Merged(op, hash, sa, sb, sc) ==
    LET a == SignedRecord(hash, sa)
        b == SignedRecord(hash, sb)
        c == SignedRecord(hash, sc)
    IN [status |-> "Done", op |-> op, a |-> a, b |-> b, c |-> c,
        ab |-> merge(a, b), ba |-> merge(b, a),
        ab_c |-> merge(merge(a, b), c), a_bc |-> merge(a, merge(b, c))]

SubmitMintConfigTx ==
    /\ mg = Pending
    /\ \E hash \in Messages, sa \in SigLists, sb \in SigLists, sc \in SigLists :
         mg' = Merged("SubmitMintConfigTx", hash, sa, sb, sc)
    /\ UNCHANGED <<memoVars, parseVars, sigVars, prefixVars>>

SubmitMintTx ==
    /\ mg = Pending
    /\ \E hash \in Messages, sa \in SigLists, sb \in SigLists, sc \in SigLists :
         mg' = Merged("SubmitMintTx", hash, sa, sb, sc)
    /\ UNCHANGED <<memoVars, parseVars, sigVars, prefixVars>>

MergeInit == MemoIdle /\ ParseIdle /\ SigIdle /\ PrefixIdle /\ MergeIdle

MergeNext == SubmitMintConfigTx \/ SubmitMintTx

SpecMerge == MergeInit /\ [][MergeNext]_vars

(***************************************************************************)
(* Properties of the DefragmentationMemoBuilder                            *)
(***************************************************************************)
\* a step that is a call of op
IsCall(op) == calls' = calls + 1 /\ call'.op = op

\* C1: once a make_memo_for_output call has returned Ok, every later
\* make_memo_for_output call on the builder returns
\* Err(MultipleDefragOutputs), whatever setters were called in between.
C1_SecondMainMemoFails ==
    [][(hist.main_ok > 0 /\ IsCall("make_memo_for_output"))
        => call'.result.status = "MultipleDefragOutputs"]_vars

\* C2: after a make_memo_for_output call has returned Ok, every later set_fee
\* call returns Err(FeeAfterChange) and leaves the stored fee unchanged.
C2_SetFeeAfterMainFails ==
    [][(hist.main_ok > 0 /\ IsCall("set_fee"))
        => (call'.result.status = "FeeAfterChange" /\ fee' = fee)]_vars

\* C3: when make_memo_for_change_output has returned Ok before any successful
\* make_memo_for_output, every later make_memo_for_output call fails with
\* Err(OutputsAfterChange).
C3_MainAfterChangeFails ==
    [][(hist.change_first /\ IsCall("make_memo_for_output"))
        => call'.result.status = "OutputsAfterChange"]_vars

\* C4: once a make_memo_for_change_output call has returned Ok, every later
\* make_memo_for_change_output call returns Err(MultipleChangeOutputs), also
\* when its amount's token id differs from the fee's.
C4_SecondChangeMemoFails ==
    [][(hist.change_ok > 0 /\ IsCall("make_memo_for_change_output"))
        => call'.result.status = "MultipleChangeOutputs"]_vars

\* C5: make_memo_for_change_output returns an error and no payload whenever
\* the amount's token id equals the token id of the stored fee (the default
\* MOB fee or the fee last accepted by set_fee); if no change memo was handed
\* out before, the error is MixedTokenIds.
C5_SameTokenChangeRejected ==
    [][(IsCall("make_memo_for_change_output")
        /\ call'.amount.token_id = hist.fee.token_id)
        => /\ call'.result.status # "Ok"
           /\ call'.result.payload = <<>>
           /\ (hist.change_ok = 0 => call'.result.status = "MixedTokenIds")]_vars

\* C5 witness: a change output in the token of a fee that set_fee installed
\* (not the default MOB fee) was refused with MixedTokenIds.
C5_Witness ==
    /\ call.op = "make_memo_for_change_output"
    /\ call.amount.token_id = hist.fee.token_id
    /\ hist.fee.token_id # MobID
    /\ call.result.status = "MixedTokenIds"

\* C6: whenever make_memo_for_output succeeds, the payload encodes the stored
\* fee (the minimum MOB fee unless replaced by an accepted set_fee), the total
\* outlay last given to set_total_outlay (the minimum fee by default) and the
\* id last set by set_defrag_id, or 0 if never set or cleared; it does not
\* depend on the amount argument.
C6_MainMemoEncodesState ==
    (call.op = "make_memo_for_output" /\ call.result.status = "Ok")
        => call.result.payload =
             <<DefragmentationMemo(hist.fee, hist.total_outlay,
                                   unwrap_or(hist.defrag_id, 0))>>

\* C6 witness: a main memo was produced after the fee, the outlay and the id
\* were all replaced, for an amount that differs from the fee.
C6_Witness ==
    /\ call.op = "make_memo_for_output" /\ call.result.status = "Ok"
    /\ hist.fee # Amount(MINIMUM_FEE, MobID)
    /\ hist.total_outlay # MINIMUM_FEE
    /\ hist.defrag_id = Some(1)
    /\ call.amount # hist.fee

\* C7: whenever make_memo_for_change_output succeeds, the payload carries fee
\* 0, total outlay 0 and the id the main memo uses (the id set by
\* set_defrag_id, or 0 if unset), for every amount, stored fee and outlay.
C7_ChangeMemoIsZeroed ==
    (call.op = "make_memo_for_change_output" /\ call.result.status = "Ok")
        => call.result.payload =
             <<DefragmentationMemo(0, 0, unwrap_or(hist.defrag_id, 0))>>

\* C7 witness: a change memo was produced with a non-zero id set, a non-zero
\* stored outlay and a non-zero change amount.
C7_Witness ==
    /\ call.op = "make_memo_for_change_output" /\ call.result.status = "Ok"
    /\ hist.defrag_id = Some(1)
    /\ total_outlay # 0 /\ fee.value # 0
    /\ call.amount.value # 0

(***************************************************************************)
(* Properties of parse_mint_config                                         *)
(***************************************************************************)
\* the config string has a numeric mint limit and threshold, and every part
\* after them names a readable, well-formed key file
WellFormed(ps) ==
    /\ Len(ps) >= 2
    /\ ps[1].kind = "num" /\ ps[2].kind = "num"
    /\ \A i \in 3..Len(ps) : ps[i].kind = "key"

\* C8: with all key files readable and well-formed, for every key list keys
\* and threshold t, parse_mint_config succeeds if and only if
\* 0 < t <= len(keys); t = 0 and t > len(keys) are rejected.
C8_SignerSetValidity ==
    (parsed # Pending /\ WellFormed(parts))
        => (parsed.status = "Ok"
              <=> (0 < parts[2].v /\ parts[2].v <= Len(parts) - 2))

(***************************************************************************)
(* Properties of try_into_mint_config_tx / try_into_mint_tx                *)
(***************************************************************************)
Range(s) == {s[i] : i \in DOMAIN s}

\* the signatures the local signing keys of invocation t produce
LocalSigs(t) == {Sign(k, t.prefix.hash) : k \in Range(t.signing_keys)}

\* local signatures union externally supplied signatures
SigSet(t) == LocalSigs(t) \cup Range(t.signatures)

StrictlyAscending(s) == \A i \in 1..(Len(s) - 1) : s[i] < s[i + 1]

\* C9: for a fixed prefix hash, two invocations whose local signatures union
\* external signatures are the same set return the identical signature
\* collection, whatever the order of the keys, the order of the supplied
\* signatures, the repetitions, and which signatures were local or external.
C9_AggregationOrderIndependent ==
    (/\ tx[1].status = "Ok" /\ tx[2].status = "Ok"
     /\ tx[1].prefix.hash = tx[2].prefix.hash
     /\ SigSet(tx[1]) = SigSet(tx[2]))
        => tx[1].signature = tx[2].signature

\* C9 witness: two invocations over the same hash with the same signature set
\* of at least two signatures, where the key lists differ, the supplied
\* signature lists differ, and a signature local in one is external in the
\* other.
C9_Witness ==
    /\ tx[1].status = "Ok" /\ tx[2].status = "Ok"
    /\ tx[1].prefix.hash = tx[2].prefix.hash
    /\ SigSet(tx[1]) = SigSet(tx[2])
    /\ Cardinality(SigSet(tx[1])) >= 2
    /\ tx[1].signing_keys # tx[2].signing_keys
    /\ tx[1].signatures # tx[2].signatures
    /\ LocalSigs(tx[1]) # LocalSigs(tx[2])
    /\ tx[1].signature = tx[2].signature

\* C10: the signature collection of every returned record is strictly
\* ascending (sorted, no two equal entries) and its element set is exactly
\* the locally produced signatures plus the externally supplied ones, which
\* are taken as they are.
C10_CollectionSortedExact ==
    \A i \in 1..2 :
        tx[i].status = "Ok"
            => /\ StrictlyAscending(tx[i].signature)
               /\ Range(tx[i].signature) = SigSet(tx[i])

\* C10 witness: two local keys and one external signature that equals neither
\* of theirs gave a record of exactly 3 signatures.
C10_Witness ==
    /\ tx[1].status = "Ok"
    /\ Len(tx[1].signing_keys) = 2 /\ Cardinality(LocalSigs(tx[1])) = 2
    /\ Len(tx[1].signatures) = 1
    /\ tx[1].signatures[1] \notin LocalSigs(tx[1])
    /\ Len(tx[1].signature) = 3

\* a record was returned by invocation t
Returned(t) == t.status = "Ok" /\ "signature" \in DOMAIN t

\* C11: if signing the prefix hash fails for one of the local signing keys,
\* the invocation returns an error and no record; no returned record lacks
\* the signature of a requested local key.
C11_SigningFailureIsFatal ==
    \A i \in 1..2 :
        /\ (/\ tx[i] # Pending /\ tx[i].prefix.status = "Ok"
            /\ \E k \in Range(tx[i].signing_keys) :
                   try_sign(k, tx[i].prefix.hash).status # "Ok")
              => (tx[i].status = "ErrSign" /\ ~Returned(tx[i]))
        /\ Returned(tx[i])
              => \A k \in Range(tx[i].signing_keys) :
                     /\ try_sign(k, tx[i].prefix.hash).status = "Ok"
                     /\ Sign(k, tx[i].prefix.hash) \in Range(tx[i].signature)

\* C11 witness: an invocation with a signing key, a failing key after it and
\* a supplied signature ended in the signing error.
C11_Witness ==
    /\ tx[1] # Pending /\ tx[1].prefix.status = "Ok"
    /\ Len(tx[1].signing_keys) = 2
    /\ tx[1].signing_keys[1] \in GoodKeys
    /\ tx[1].signing_keys[2] \in BrokenKeys
    /\ tx[1].signatures # <<>>
    /\ tx[1].status = "ErrSign"

(***************************************************************************)
(* Properties of the prefix builders                                       *)
(***************************************************************************)
\* the caller-supplied tombstone of call arguments a if present, else the
\* fallback value
Base(a) == IF a.tombstone = None THEN a.fallback ELSE a.tombstone[1]

\* the recipient of a has a fog url and the supplied fog context resolved it
FogResolved(a) ==
    /\ a.recipient.fog_report_url # None
    /\ a.fog_bits # None
    /\ a.fog_bits[1].status = "Ok"

\* C12: when a fog expiry height is resolved for the recipient, the prefix's
\* tombstone_block is min(base, expiry): the expiry when it is smaller than
\* base, base otherwise; it is never greater than base nor than the expiry.
C12_TombstoneMinimized ==
    \A i \in 1..2 :
        (/\ px[i] # Pending /\ px[i].op = "mint_tx_prefix"
         /\ FogResolved(px[i].args))
            => LET base == Base(px[i].args)
                   expiry == px[i].args.fog_bits[1].pubkey_expiry
               IN /\ px[i].result.status = "Ok"
                  /\ LET t == px[i].result.prefix.tombstone_block IN
                     /\ (expiry < base => t = expiry)
                     /\ (expiry >= base => t = base)
                     /\ t <= base /\ t <= expiry

\* C12 witness: a supplied tombstone was lowered to a smaller fog expiry.
C12_Witness ==
    /\ px[1] # Pending /\ px[1].op = "mint_tx_prefix"
    /\ FogResolved(px[1].args)
    /\ px[1].args.tombstone # None
    /\ px[1].args.fog_bits[1].pubkey_expiry < Base(px[1].args)
    /\ px[1].result.status = "Ok"
    /\ px[1].result.prefix.tombstone_block
         = px[1].args.fog_bits[1].pubkey_expiry

\* C13: when the recipient has a fog report url, try_into_mint_tx_prefix
\* returns a prefix only if a fog context was supplied and its hint
\* resolution succeeded: without a context the error names the url, with a
\* failing get_e_fog_hint the error is that error, and in both cases there is
\* no prefix and try_into_mint_tx returns no signed MintTx.
C13_FogContextRequired ==
    (mtx # Pending /\ mtx.args.recipient.fog_report_url # None)
        => LET a == mtx.args
               r == mtx.prefix_result
           IN /\ a.fog_bits = None
                   => /\ r.status = "ErrNoFogContext"
                      /\ r.url = a.recipient.fog_report_url[1]
              /\ (a.fog_bits # None /\ a.fog_bits[1].status # "Ok")
                   => /\ r.status = "ErrFogHint"
                      /\ r.err = a.fog_bits[1].err
              /\ r.status = "Ok" <=> FogResolved(a)
              /\ ~FogResolved(a)
                   => /\ "prefix" \notin DOMAIN r
                      /\ mtx.tx.status = "ErrPrefix"
                      /\ "signature" \notin DOMAIN mtx.tx

\* C13 witness: a mint to a fog recipient without a fog context, with signing
\* keys and signatures at hand, ended in the error naming the url.
C13_Witness ==
    /\ mtx # Pending
    /\ mtx.args.recipient.fog_report_url # None
    /\ mtx.args.fog_bits = None
    /\ mtx.tx.signing_keys # <<>> /\ mtx.tx.signatures # <<>>
    /\ \A k \in Range(mtx.tx.signing_keys) : k \in GoodKeys
    /\ mtx.prefix_result.status = "ErrNoFogContext"
    /\ mtx.tx.status = "ErrPrefix"

\* C14: a supplied nonce is passed through: the prefix's nonce is exactly
\* those NONCE_LENGTH bytes and no randomness is consumed, so a second run on
\* the same parameters, fallback tombstone and fog result gives an equal
\* result; without a supplied nonce the prefix's nonce is a generated value
\* of exactly NONCE_LENGTH bytes.
C14_ExplicitNonceDeterministic ==
    /\ \A i \in 1..2 :
         (px[i] # Pending /\ px[i].result.status = "Ok")
            => LET a == px[i].args
                   r == px[i].result
               IN /\ Len(r.prefix.nonce) = NONCE_LENGTH
                  /\ a.nonce # None
                       => (r.prefix.nonce = a.nonce[1] /\ ~r.rng_used)
                  /\ a.nonce = None
                       => (r.rng_used
                           /\ \A j \in 1..NONCE_LENGTH :
                                  r.prefix.nonce[j] = a.rng[j])
    /\ (px[2] # Pending /\ px[1].args.nonce # None)
         => px[2].result = px[1].result

\* C14 witness: a mint prefix for a fog recipient built twice with the same
\* explicit nonce while the random source yielded different bytes.
C14_Witness ==
    /\ px[2] # Pending /\ px[2].op = "mint_tx_prefix"
    /\ px[1].args.nonce # None
    /\ px[1].args.rng # px[2].args.rng
    /\ FogResolved(px[1].args)
    /\ px[1].result.status = "Ok"
    /\ px[2].result.prefix = px[1].result.prefix

\* C15: try_into_mint_config_tx_prefix emits one MintConfig per supplied
\* (mint_limit, signer_set) pair, in the supplied order, each with that
\* pair's mint_limit and signer_set and the prefix's token id; the prefix's
\* total_mint_limit is the supplied one and its tombstone_block is the
\* supplied tombstone if present, else the fallback value.
C15_ConfigPrefixFields ==
    \A i \in 1..2 :
        (px[i] # Pending /\ px[i].op = "mint_config_tx_prefix")
            => LET a == px[i].args
                   r == px[i].result
               IN /\ r.status = "Ok"
                  /\ r.prefix.token_id = a.token_id
                  /\ Len(r.prefix.configs) = Len(a.configs)
                  /\ \A j \in 1..Len(a.configs) :
                         r.prefix.configs[j] =
                             [token_id |-> a.token_id,
                              mint_limit |-> a.configs[j][1],
                              signer_set |-> a.configs[j][2]]
                  /\ r.prefix.total_mint_limit = a.total_mint_limit
                  /\ r.prefix.tombstone_block = Base(a)

\* C15 witness: a prefix built from two different pairs, with a total mint
\* limit that is neither pair's limit and no supplied tombstone.
C15_Witness ==
    /\ px[1] # Pending /\ px[1].op = "mint_config_tx_prefix"
    /\ Len(px[1].args.configs) = 2
    /\ px[1].args.configs[1] # px[1].args.configs[2]
    /\ px[1].args.tombstone = None
    /\ px[1].args.total_mint_limit = 5
    /\ Len(px[1].result.prefix.configs) = 2

\* C18: when the recipient has no fog report url, the supplied fog context
\* has no effect: get_e_fog_hint is not called, the prefix is produced, its
\* e_fog_hint is absent and its tombstone_block is the supplied tombstone if
\* present, else the fallback value, not lowered to any expiry.
C18_NoFogUrlIgnoresContext ==
    \A i \in 1..2 :
        (/\ px[i] # Pending /\ px[i].op = "mint_tx_prefix"
         /\ px[i].args.recipient.fog_report_url = None)
            => LET a == px[i].args
                   r == px[i].result
               IN /\ r.status = "Ok"
                  /\ ~r.hint_called
                  /\ r.prefix.e_fog_hint = None
                  /\ r.prefix.tombstone_block = Base(a)
                  /\ r = try_into_mint_tx_prefix_result(
                             [a EXCEPT !.fog_bits = None])

\* C18 witness: a recipient without a fog url, minted to with a fog context
\* whose expiry is below the tombstone.
C18_Witness ==
    /\ px[1] # Pending /\ px[1].op = "mint_tx_prefix"
    /\ px[1].args.recipient.fog_report_url = None
    /\ px[1].args.fog_bits # None
    /\ px[1].args.fog_bits[1].status = "Ok"
    /\ px[1].args.fog_bits[1].pubkey_expiry < Base(px[1].args)
    /\ px[1].result.status = "Ok"
    /\ px[1].result.prefix.tombstone_block = Base(px[1].args)

(***************************************************************************)
(* Properties of merging                                                   *)
(***************************************************************************)
\* C16: merging partially signed records of the same prefix yields a record
\* whose signature collection is the sorted, deduplicated union of the
\* inputs' collections, independent of the merge order:
\* merge(A, B) = merge(B, A) and merge(merge(A, B), C) = merge(A, merge(B, C)).
C16_MergeIsUnion ==
    mg # Pending
        => /\ mg.ab.prefix = mg.a.prefix
           /\ StrictlyAscending(mg.ab.signature)
           /\ Range(mg.ab.signature)
                = Range(mg.a.signature) \cup Range(mg.b.signature)
           /\ StrictlyAscending(mg.ab_c.signature)
           /\ Range(mg.ab_c.signature)
                = Range(mg.a.signature) \cup Range(mg.b.signature)
                    \cup Range(mg.c.signature)
           /\ mg.ab = mg.ba
           /\ mg.ab_c = mg.a_bc

\* C16 witness: three different records that share signatures, none of them
\* holding all, merged into a record of three signatures.
C16_Witness ==
    /\ mg # Pending
    /\ mg.a.signature # mg.b.signature /\ mg.b.signature # mg.c.signature
    /\ Range(mg.a.signature) \cap Range(mg.b.signature) # {}
    /\ Range(mg.c.signature) \ Range(mg.ab.signature) # {}
    /\ Range(mg.a.signature) \ Range(mg.b.signature) # {}
    /\ Len(mg.ab_c.signature) = 3
    /\ mg.ab_c = mg.a_bc

(***************************************************************************)
(* set_fee and the change memo                                             *)
(***************************************************************************)
\* C17: set_fee is allowed only before any output memo was written: after a
\* make_memo_for_change_output call has returned Ok, every later set_fee
\* call fails and leaves the stored fee unchanged; before any memo was
\* written set_fee succeeds and replaces the stored fee.
C17_SetFeeOnlyWhenFresh ==
    [][IsCall("set_fee")
        => /\ hist.change_ok > 0
                => (call'.result.status # "Ok" /\ fee' = fee)
           /\ (hist.main_ok = 0 /\ hist.change_ok = 0)
                => (call'.result.status = "Ok" /\ fee' = call'.amount)]_vars

====
